---- MODULE Spec2Model ----
(***************************************************************************)
(* Model of the corrugated-roof calculator core (src/app.py):              *)
(*   calculate_corrugated_profile  (lines 14-99)                           *)
(*   calculate_bending_cost        (lines 101-124)                         *)
(*   the part of main() that calls both and derives design_failed          *)
(*                                                                         *)
(* Number representation.  The program computes on floats; the model       *)
(* computes on decimal fixed-point integers:                               *)
(*   - a length is an integer number of thousandths of a millimetre, so    *)
(*     that round(x, 2) is a real rounding step (to a multiple of 10) and  *)
(*     total_length may lie between two hundredths;                        *)
(*   - sin and cos are tabulated to five decimals (scaled by TrigScale);   *)
(*   - a leftover coordinate, being a length times a sine or cosine, is    *)
(*     kept unrounded in "fine" units of 1/TrigScale thousandths.          *)
(* Main-profile coordinates are in thousandths, leftover coordinates in    *)
(* fine units.                                                             *)
(***************************************************************************)
EXTENDS Integers, Sequences, FiniteSets, TLC

\* ---------------------------------------------------------------- bounds
\* largest total_length tried, in thousandths of a millimetre
MaxTotal == 3000
\* largest module count handed to calculate_bending_cost on its own
MaxBendN == 3
\* largest leftover height handed to calculate_bending_cost on its own
MaxHeight == 2

\* ----------------------------------------------------- input domains
FlatWidths == {300, 1000}
PeakHeights == {500, 1000}
Degrees == {30, 45, 60}
TotalLengths == 1..MaxTotal
CostChoices == {1, 50}

\* -------------------------------------------------- numeric helpers
TrigScale == 100000

\* np.sin(np.deg2rad(degree)) * TrigScale
Sin(deg) ==
    CASE deg = 30 -> 50000
      [] deg = 45 -> 70711
      [] deg = 60 -> 86603

\* np.cos(np.deg2rad(degree)) * TrigScale
Cos(deg) ==
    CASE deg = 30 -> 86603
      [] deg = 45 -> 70711
      [] deg = 60 -> 50000

Min(a, b) == IF a <= b THEN a ELSE b
Max(a, b) == IF a >= b THEN a ELSE b

\* nearest integer to n/d, ties to even (n >= 0, d > 0)
RoundHalfEven(n, d) ==
    LET q == n \div d
        r == n % d
    IN  IF 2 * r < d THEN q
        ELSE IF 2 * r > d THEN q + 1
        ELSE IF q % 2 = 0 THEN q ELSE q + 1

\* round(n/d, 2) for a length n/d in thousandths: a multiple of 10
Round2(n, d) == 10 * RoundHalfEven(n, 10 * d)

\* L = round(D / np.tan(radian), 2)
HorizontalRun(d, deg) == Round2(d * Cos(deg), Sin(deg))

\* slant_length = round(D / np.sin(radian), 2)
SlantLength(d, deg) == Round2(d * TrigScale, Sin(deg))

\* module_physical_length = A + 2 * slant_length
ModuleLength(a, slant) == a + 2 * slant

\* a module count one too high whenever the division leaves a remainder
ModuleCount_RoundsUp(total, module) == (total + module - 1) \div module

\* N = int(total_length // module_physical_length)
ModuleCount(total, module) == total \div module

\* a module whose valley is placed one run short of where it belongs
ModuleXs_ShortValley(x, a, l) == << x, x + a, x + a + l, x + a + l >>

\* the four points one loop iteration appends, as x and z lists
ModuleXs(x, a, l) == << x, x + a, x + a + l, x + a + l + l >>
ModuleZs(d) == << 0, 0, d, 0 >>

\* a closing flat that appends its end point only
ClosureXs_EndOnly(x, a) == << x + a >>

\* the two x values of the closing flat
ClosureXs(x, a) == << x, x + a >>

\* a closing flat added even when no module fits
NeedsClosure_Always(n) == n >= 0

\* if N > 0
NeedsClosure(n) == n > 0

\* a closing flat that is drawn but not counted as used material
ClosedUsedLength_Forgotten(used, a) == used

\* used_length += A
ClosedUsedLength(used, a) == used + a

\* a full slant-up drawn only when the leftover is strictly longer
FitsFullSlant_Strict(lo, slant) == lo > slant

\* if leftover >= slant_length
FitsFullSlant(lo, slant) == lo >= slant

\* a failure flag raised already when the sheet is used up exactly
DesignFailed_AtEqual(used, total) == used >= total

\* design_failed = used_length > total_length
DesignFailed(used, total) == used > total

\* ------------------------------------------- calculate_bending_cost
BendsPerModule == 3
FlatToUpBends == 0
UpToDownBends == 0

\* the for loop over leftover_z with its break, from index k (1-based)
RECURSIVE LeftoverLoop(_, _)
LeftoverLoop(lz, k) ==
    IF k > Len(lz) THEN 0
    ELSE IF lz[k] > 0
         THEN FlatToUpBends
              + (IF k > 1 /\ lz[k] > lz[k - 1] THEN UpToDownBends ELSE 0)
         ELSE LeftoverLoop(lz, k + 1)

\* a leftover count that charges one bend for any raised leftover point
LeftoverBends_CountsRise(lx, lz) ==
    IF Len(lx) > 0 /\ Len(lz) > 0 /\ (\E k \in 1..Len(lz) : lz[k] > 0)
    THEN 1 ELSE 0

\* lines 109-119
LeftoverBends(lx, lz) ==
    IF Len(lx) > 0 /\ Len(lz) > 0 THEN LeftoverLoop(lz, 1) ELSE 0

calculate_bending_cost(n, lx, lz, cpb) ==
    LET complete_module_bends == n * BendsPerModule
        leftover_bends == LeftoverBends(lx, lz)
        total_bends == complete_module_bends + leftover_bends
    IN  [ total_bends |-> total_bends,
          total_cost |-> total_bends * cpb,
          complete_module_bends |-> complete_module_bends,
          leftover_bends |-> leftover_bends ]

\* ------------------------------------------------------------ state
VARIABLES
    pc,
    A, D, degree, total_length,
    L, slant_length, module_physical_length, N, used_length, leftover,
    x_profile, z_profile, x_current, i,
    leftover_profile_x, leftover_profile_z,
    ret,
    bend_N, leftover_x, leftover_z, cost_per_bend, cost_result,
    design_failed

profileVars == << A, D, degree, total_length,
                  L, slant_length, module_physical_length, N, used_length,
                  leftover, x_profile, z_profile, x_current, i,
                  leftover_profile_x, leftover_profile_z, ret >>
costVars == << bend_N, leftover_x, leftover_z, cost_per_bend, cost_result >>
vars == << pc, profileVars, costVars, design_failed >>

NoReturn ==
    [ x_profile |-> << >>, z_profile |-> << >>,
      leftover_profile_x |-> << >>, leftover_profile_z |-> << >>,
      N |-> 0, module_physical_length |-> 0, L |-> 0, slant_length |-> 0,
      used_length |-> 0, leftover |-> 0 ]

NoCost ==
    [ total_bends |-> 0, total_cost |-> 0,
      complete_module_bends |-> 0, leftover_bends |-> 0 ]

LocalsInit ==
    /\ L = 0 /\ slant_length = 0 /\ module_physical_length = 0
    /\ N = 0 /\ used_length = 0 /\ leftover = 0
    /\ x_profile = << >> /\ z_profile = << >> /\ x_current = 0 /\ i = 0
    /\ leftover_profile_x = << >> /\ leftover_profile_z = << >>
    /\ ret = NoReturn

CostInit ==
    /\ bend_N = 0 /\ leftover_x = << >> /\ leftover_z = << >>
    /\ cost_per_bend = 50 /\ cost_result = NoCost

\* main() has read the sliders and is about to call
\* calculate_corrugated_profile(A, D, degree, total_length)
Init ==
    /\ pc = "entry"
    /\ A \in FlatWidths
    /\ D \in PeakHeights
    /\ degree \in Degrees
    /\ total_length \in TotalLengths
    /\ LocalsInit
    /\ CostInit
    /\ design_failed = FALSE

\* lines 17-42: derived geometry, module count, first used/leftover
Derive ==
    /\ pc = "entry"
    /\ L' = HorizontalRun(D, degree)
    /\ slant_length' = SlantLength(D, degree)
    /\ module_physical_length' = ModuleLength(A, slant_length')
    /\ N' = ModuleCount(total_length, module_physical_length')
    /\ used_length' = N' * module_physical_length'
    /\ leftover' = total_length - used_length'
    /\ x_profile' = << >>
    /\ z_profile' = << >>
    /\ x_current' = 0
    /\ i' = 0
    /\ pc' = "loop"
    /\ UNCHANGED << A, D, degree, total_length, leftover_profile_x,
                    leftover_profile_z, ret, costVars, design_failed >>

\* lines 44-58: one iteration of the module loop
LoopBody ==
    /\ pc = "loop"
    /\ i < N
    /\ x_profile' = x_profile \o ModuleXs(x_current, A, L)
    /\ z_profile' = z_profile \o ModuleZs(D)
    /\ x_current' = x_current + A + L + L
    /\ i' = i + 1
    /\ UNCHANGED << pc, A, D, degree, total_length, L, slant_length,
                    module_physical_length, N, used_length, leftover,
                    leftover_profile_x, leftover_profile_z, ret, costVars,
                    design_failed >>

\* lines 60-71: loop exit, trailing flat, empty leftover lists
Closure ==
    /\ pc = "loop"
    /\ i >= N
    /\ IF NeedsClosure(N)
       THEN /\ x_profile' = x_profile \o ClosureXs(x_current, A)
            /\ z_profile' = z_profile \o << 0, 0 >>
            /\ x_current' = x_current + A
            /\ used_length' = ClosedUsedLength(used_length, A)
            /\ leftover' = total_length - used_length'
       ELSE UNCHANGED << x_profile, z_profile, x_current, used_length,
                         leftover >>
    /\ leftover_profile_x' = << >>
    /\ leftover_profile_z' = << >>
    /\ pc' = "leftover"
    /\ UNCHANGED << A, D, degree, total_length, L, slant_length,
                    module_physical_length, N, i, ret, costVars,
                    design_failed >>

\* lines 76-88: leftover >= slant_length
FullSlantUp ==
    LET rest == leftover - slant_length
        partial_slant == Min(rest, slant_length)
        partial_height == D * TrigScale - partial_slant * Sin(degree)
        partial_horizontal == partial_slant * Cos(degree)
        up_x == (x_current + L) * TrigScale
    IN  /\ x_current' = x_current + L
        /\ leftover' = rest
        /\ IF rest > 0
           THEN /\ leftover_profile_x' = << up_x, up_x + partial_horizontal >>
                /\ leftover_profile_z' =
                       << D * TrigScale, Max(0, partial_height) >>
           ELSE /\ leftover_profile_x' = << up_x >>
                /\ leftover_profile_z' = << D * TrigScale >>

\* lines 90-96: 0 < leftover < slant_length
PartialSlantUp ==
    LET partial_slant == leftover
        partial_height == partial_slant * Sin(degree)
        partial_horizontal == partial_slant * Cos(degree)
    IN  /\ leftover_profile_x' =
               << x_current * TrigScale + partial_horizontal >>
        /\ leftover_profile_z' = << partial_height >>
        /\ UNCHANGED << x_current, leftover >>

\* lines 73-96: the leftover partial-segment rule
LeftoverRule ==
    /\ pc = "leftover"
    /\ IF leftover > 0
       THEN IF FitsFullSlant(leftover, slant_length)
            THEN FullSlantUp ELSE PartialSlantUp
       ELSE UNCHANGED << leftover_profile_x, leftover_profile_z, x_current,
                         leftover >>
    /\ pc' = "return"
    /\ UNCHANGED << A, D, degree, total_length, L, slant_length,
                    module_physical_length, N, used_length, x_profile,
                    z_profile, i, ret, costVars, design_failed >>

\* lines 98-99: the returned tuple
Return ==
    /\ pc = "return"
    /\ ret' = [ x_profile |-> x_profile, z_profile |-> z_profile,
                leftover_profile_x |-> leftover_profile_x,
                leftover_profile_z |-> leftover_profile_z,
                N |-> N, module_physical_length |-> module_physical_length,
                L |-> L, slant_length |-> slant_length,
                used_length |-> used_length, leftover |-> leftover ]
    /\ pc' = "returned"
    /\ UNCHANGED << A, D, degree, total_length, L, slant_length,
                    module_physical_length, N, used_length, leftover,
                    x_profile, z_profile, x_current, i, leftover_profile_x,
                    leftover_profile_z, costVars, design_failed >>

\* main(), lines 255-273: cost of the returned layout, design_failed
Main ==
    /\ pc = "returned"
    /\ \E c \in CostChoices :
          /\ cost_per_bend' = c
          /\ cost_result' = calculate_bending_cost(
                 ret.N, ret.leftover_profile_x, ret.leftover_profile_z, c)
    /\ bend_N' = ret.N
    /\ leftover_x' = ret.leftover_profile_x
    /\ leftover_z' = ret.leftover_profile_z
    /\ design_failed' = DesignFailed(ret.used_length, total_length)
    /\ pc' = "done"
    /\ UNCHANGED profileVars

Next == Derive \/ LoopBody \/ Closure \/ LeftoverRule \/ Return \/ Main

Spec == Init /\ [][Next]_vars

\* ------------------------ calculate_bending_cost called on its own
HeightLists ==
    { << >> } \cup { << h >> : h \in 0..MaxHeight }
              \cup { << h, g >> : h \in 0..MaxHeight, g \in 0..MaxHeight }

CostEntry ==
    /\ pc = "cost_entry"
    /\ bend_N \in 0..MaxBendN
    /\ leftover_x \in HeightLists
    /\ leftover_z \in HeightLists
    /\ cost_per_bend \in CostChoices
    /\ cost_result = NoCost
    /\ A = 0 /\ D = 0 /\ degree = 0 /\ total_length = 0
    /\ LocalsInit
    /\ design_failed = FALSE

CostCall ==
    /\ pc = "cost_entry"
    /\ cost_result' = calculate_bending_cost(
           bend_N, leftover_x, leftover_z, cost_per_bend)
    /\ pc' = "cost_done"
    /\ UNCHANGED << profileVars, bend_N, leftover_x, leftover_z,
                    cost_per_bend, design_failed >>

SpecCost == CostEntry /\ [][CostCall]_vars

\* ------------------------------------------------------- properties
Returned == pc \in {"returned", "done"}

\* cursor after the closing flat: x of the last main-profile point, or 0
ClosedCursor(r) ==
    IF r.N > 0 THEN r.N * (A + 2 * r.L) + A ELSE 0

\* C1: the returned N is floor(total_length / module_physical_length) with
\* module_physical_length = A + 2 * slant_length (slant_length rounded to
\* two decimals): N >= 0 and N*module <= total_length < (N+1)*module.
Thm_C1_ModuleCountIsFloor ==
    Returned =>
        /\ ret.slant_length % 10 = 0
        /\ ret.module_physical_length = A + 2 * ret.slant_length
        /\ ret.N >= 0
        /\ ret.N * ret.module_physical_length <= total_length
        /\ total_length < (ret.N + 1) * ret.module_physical_length

Wit_C1_TwoModulesWithRemainder ==
    /\ pc = "done"
    /\ ret.N = 2
    /\ total_length > 2 * ret.module_physical_length

\* C2: the returned leftover equals total_length minus the returned
\* used_length, in both branches of the leftover partial-segment rule.
Cex_C2_LeftoverIsTotalMinusUsed ==
    Returned => ret.leftover = total_length - ret.used_length

\* C3: x_profile and z_profile have equal length; 4*i points after i loop
\* iterations, 4*N + 2 points returned when N > 0, none when N = 0.
Thm_C3_PointCount ==
    /\ pc = "loop" => Len(x_profile) = 4 * i /\ Len(z_profile) = 4 * i
    /\ Returned =>
          /\ Len(ret.x_profile) = Len(ret.z_profile)
          /\ ret.N > 0 => Len(ret.x_profile) = 4 * ret.N + 2
          /\ ret.N = 0 => Len(ret.x_profile) = 0

Wit_C3_TenPoints ==
    /\ pc = "returned"
    /\ ret.N = 2
    /\ Len(ret.x_profile) = 10
    /\ Len(ret.z_profile) = 10

Thm_C5_ShortSheet ==
    /\ (pc = "leftover" /\ total_length < module_physical_length) =>
          /\ leftover = total_length
          /\ x_current = 0
    /\ (Returned /\ total_length < ret.module_physical_length) =>
          /\ ret.N = 0
          /\ ret.x_profile = << >>
          /\ ret.z_profile = << >>
          /\ ret.used_length = 0
          /\ total_length < ret.slant_length =>
                /\ ret.leftover_profile_x = << total_length * Cos(degree) >>
                /\ ret.leftover_profile_z = << total_length * Sin(degree) >>

Wit_C5_ShorterThanSlant ==
    /\ pc = "done"
    /\ ret.N = 0
    /\ total_length < ret.slant_length
    /\ Len(ret.leftover_profile_z) = 1

\* C6: with N > 0 the closing flat makes used_length = N*module + A and
\* lowers the leftover by exactly A before the leftover rule runs; with
\* N = 0 used_length stays 0.  used_length may then exceed total_length,
\* and the computation still runs to its end with a complete result.
C6_State ==
    /\ pc \in {"leftover", "return"} =>
          /\ N > 0 => used_length = N * module_physical_length + A
          /\ N = 0 => used_length = 0
    /\ pc = "leftover" =>
          leftover = total_length - N * module_physical_length
                     - (IF N > 0 THEN A ELSE 0)
    /\ Returned =>
          /\ ret.N > 0 =>
                ret.used_length = ret.N * ret.module_physical_length + A
          /\ ret.N = 0 => ret.used_length = 0
    /\ pc # "done" => ENABLED Next
    /\ (pc = "done" /\ ret.used_length > total_length) =>
          /\ Len(ret.x_profile) = 4 * ret.N + 2
          /\ cost_result.total_bends = 3 * ret.N

C6_Step ==
    (pc = "loop" /\ pc' = "leftover") =>
        /\ N > 0 => leftover' = leftover - A /\ used_length' = used_length + A
        /\ N = 0 => leftover' = leftover /\ used_length' = used_length
        /\ leftover' <= leftover

Thm_C6_TrailingClosure == [] C6_State /\ [][C6_Step]_vars

Wit_C6_UsedExceedsTotal ==
    /\ pc = "done"
    /\ ret.N > 0
    /\ ret.used_length > total_length
    /\ Len(ret.x_profile) = 4 * ret.N + 2

\* C7: module k contributes (x,0), (x+A,0), (x+A+L,D), (x+A+2L,0) with
\* x = k*(A+2L), and the closing flat (N*(A+2L),0), (N*(A+2L)+A,0) follows;
\* so x is non-decreasing, every z is 0 or D, and the last point is
\* (N*(A+2L)+A, 0).
Thm_C7_ProfileShape ==
    (Returned /\ ret.N > 0) =>
        LET xs == ret.x_profile
            zs == ret.z_profile
            n == ret.N
            p == A + 2 * ret.L
        IN  /\ \A k \in 0..(n - 1) :
                  /\ xs[4 * k + 1] = k * p
                  /\ xs[4 * k + 2] = k * p + A
                  /\ xs[4 * k + 3] = k * p + A + ret.L
                  /\ xs[4 * k + 4] = k * p + A + 2 * ret.L
                  /\ zs[4 * k + 1] = 0
                  /\ zs[4 * k + 2] = 0
                  /\ zs[4 * k + 3] = D
                  /\ zs[4 * k + 4] = 0
            /\ xs[4 * n + 1] = n * p
            /\ xs[4 * n + 2] = n * p + A
            /\ zs[4 * n + 1] = 0
            /\ zs[4 * n + 2] = 0
            /\ \A k \in 1..(Len(xs) - 1) : xs[k] <= xs[k + 1]
            /\ \A k \in 1..Len(zs) : zs[k] \in {0, D}
            /\ xs[Len(xs)] = n * p + A
            /\ zs[Len(zs)] = 0

Wit_C7_SecondModulePeak ==
    /\ pc = "done"
    /\ ret.N = 2
    /\ ret.L > 0
    /\ ret.x_profile[7] = 2 * A + 3 * ret.L
    /\ ret.z_profile[7] = D

\* C8: with l the leftover after the closing flat, the leftover lists have
\* equal length: 0 points when l <= 0; 1 point when 0 < l <= slant_length
\* (the partial slant-up point when l < slant_length, the full slant-up
\* point (cursor+L, D) when l = slant_length); 2 points when
\* l > slant_length, the first being (cursor+L, D).  The rule changes
\* neither N nor used_length.
C8_State ==
    Returned =>
        LET l == total_length - ret.used_length
            lx == ret.leftover_profile_x
            lz == ret.leftover_profile_z
            cursor == ClosedCursor(ret)
            s == ret.slant_length
            full_x == (cursor + ret.L) * TrigScale
            full_z == D * TrigScale
        IN  /\ Len(lx) = Len(lz)
            /\ Len(lx) <= 2
            /\ l <= 0 => Len(lx) = 0
            /\ (0 < l /\ l < s) =>
                  /\ lx = << cursor * TrigScale + l * Cos(degree) >>
                  /\ lz = << l * Sin(degree) >>
            /\ l = s => lx = << full_x >> /\ lz = << full_z >>
            /\ l > s =>
                  /\ Len(lx) = 2
                  /\ lx[1] = full_x
                  /\ lz[1] = full_z
                  /\ lx[2] = full_x + Min(l - s, s) * Cos(degree)
                  /\ lz[2] = Max(0, full_z - Min(l - s, s) * Sin(degree))

C8_Step ==
    pc = "leftover" => N' = N /\ used_length' = used_length

Thm_C8_LeftoverSegment == [] C8_State /\ [][C8_Step]_vars

Wit_C8_ExactlyOneSlant ==
    /\ pc = "done"
    /\ ret.N > 0
    /\ total_length - ret.used_length = ret.slant_length
    /\ Len(ret.leftover_profile_x) = 1

\* C9: every leftover point has height in [0, D] and x not left of the
\* last main-profile point (or of 0 when N = 0), and the leftover x values
\* are non-decreasing.
Cex_C9_LeftoverWithinPeak ==
    Returned =>
        LET lx == ret.leftover_profile_x
            lz == ret.leftover_profile_z
        IN  /\ \A k \in 1..Len(lz) : 0 <= lz[k] /\ lz[k] <= D * TrigScale
            /\ \A k \in 1..Len(lx) : lx[k] >= ClosedCursor(ret) * TrigScale
            /\ \A k \in 1..(Len(lx) - 1) : lx[k] <= lx[k + 1]

\* C10: design_failed holds exactly when N > 0 and
\* total_length - N*module < A, never when N = 0; then the returned
\* leftover is negative, the leftover lists are empty and the main profile
\* has 4*N + 2 points; otherwise the returned leftover is >= 0.
Thm_C10_DesignFailure ==
    pc = "done" =>
        /\ design_failed <=>
              (/\ ret.N > 0
               /\ total_length - ret.N * ret.module_physical_length < A)
        /\ ret.N = 0 => ~design_failed
        /\ design_failed =>
              /\ ret.leftover < 0
              /\ ret.leftover_profile_x = << >>
              /\ ret.leftover_profile_z = << >>
              /\ Len(ret.x_profile) = 4 * ret.N + 2
              /\ Len(ret.z_profile) = 4 * ret.N + 2
        /\ ~design_failed => ret.leftover >= 0

Wit_C10_FailedWithTwoModules ==
    /\ pc = "done"
    /\ design_failed
    /\ ret.N = 2
    /\ ret.leftover < 0
    /\ ret.leftover_profile_x = << >>

====
